---- MODULE Spec2Model ----
(***************************************************************************)
(* Model of main.py: the Bollinger-breakout scanner.                       *)
(*                                                                         *)
(* The pure part (add_indicators, buy_signal, sell_signal) is computed on  *)
(* price series with exact integer arithmetic: a rolling mean is kept as   *)
(* the fraction sum/window, and a comparison against bb_up = ma + 2*sd is  *)
(* decided on squares, so no division or square root is approximated.      *)
(* The stateful part (main, load_state, save_state, send_telegram) is a    *)
(* state machine over successive runs of the process and the state file.   *)
(***************************************************************************)
EXTENDS Integers, Sequences, FiniteSets, TLC

(***************************************************************************)
(* Strategy constants (main.py:25-34).                                     *)
(***************************************************************************)
BREAKOUT_LOOKBACK == 20
MA50_SLOPE_LOOKBACK == 20
EXIT_NDAY_LOW == 10
\* the cold-start guard of buy_signal: len(df) < 250
MIN_BARS == 250
\* the rolling windows of add_indicators
MA20_WINDOW == 20
MA50_WINDOW == 50
MA200_WINDOW == 200

(***************************************************************************)
(* Bounds of the model.                                                    *)
(***************************************************************************)
\* number of successive runs of the process that are explored
MaxRuns == 2

(***************************************************************************)
(* State.  The program's own: the state file, the position in main (pc),   *)
(* and main's locals.  History kept for the statements: run, ended, saves, *)
(* loaded, prior, last, born, bornSaved, clean, series.                    *)
(***************************************************************************)
VARIABLES
    file,       \* STATE_FILE on disk: [exists, text]
    pc,         \* "idle" (no process), "universe", "loop", "send", "write"
    today,      \* the day of the run (dt.datetime.now() as %Y%m%d)
    positions,  \* state["positions"]
    tickers,    \* the universe of this run
    i,          \* index of the next ticker of the loop
    buy_list, warn_list, exit_list,
    messages,   \* the messages built after the loop
    sent,       \* how many of them send_telegram has delivered
    pending,    \* the tokens json.dump has still to write
    run,        \* number of runs started
    ended,      \* how the last run ended: "", "completed", "crashed", "killed"
    saves,      \* calls of save_state in this run
    loaded,     \* the positions load_state returned in this run
    prior,      \* the file as it was when save_state opened it
    last,       \* what the latest ticker pass of the loop did
    skipped,    \* the tickers of this run whose pass raised
    born,       \* per ticker: day of the first buy since its last exit, or 0
    bornSaved,  \* born as of the last snapshot written out in full
    clean,      \* every run so far went through load, passes, notify, save
    series      \* SignalSpec only: the parameters of the series under test

vars == <<file, pc, today, positions, tickers, i, buy_list, warn_list,
          exit_list, messages, sent, pending, run, ended, saves, loaded,
          prior, last, skipped, born, bornSaved, clean, series>>

(***************************************************************************)
(* Values of a DataFrame cell.  A number is the fraction num/den (den > 0);*)
(* NaN is pandas' "no value".  Every comparison with NaN is False.         *)
(***************************************************************************)
NaN == [nan |-> TRUE, num |-> 0, den |-> 1]
Num(n) == [nan |-> FALSE, num |-> n, den |-> 1]
Frac(n, d) == [nan |-> FALSE, num |-> n, den |-> d]
isna(x) == x.nan
Gt(a, b) == ~a.nan /\ ~b.nan /\ a.num * b.den > b.num * a.den
Lt(a, b) == ~a.nan /\ ~b.nan /\ a.num * b.den < b.num * a.den
Ge(a, b) == ~a.nan /\ ~b.nan /\ a.num * b.den >= b.num * a.den
Le(a, b) == ~a.nan /\ ~b.nan /\ a.num * b.den <= b.num * a.den
\* VOLUME_MULT = 1.5 (main.py:29), kept exact as the fraction 3/2
VOLUME_MULT == Frac(3, 2)
Mul(a, b) == [nan |-> a.nan \/ b.nan, num |-> a.num * b.num, den |-> a.den * b.den]

\* A DataFrame is a function from column names to columns, a column a
\* function on the rows 1..n.  "close" is the column "종가", "volume" the
\* column "거래량".  len(df) is the number of rows.
len(df) == Cardinality(DOMAIN df["close"])

(***************************************************************************)
(* Rolling windows (pandas Series.rolling(w), min_periods = w): the value  *)
(* at row i covers rows i-w+1..i and is NaN while fewer than w rows exist. *)
(***************************************************************************)
\* The folds over rows lo..hi halve the range, which keeps the evaluation
\* shallow on the 200-row window; the value is the plain sum, max or min.
Mid(lo, hi) == (lo + hi) \div 2
Max2(a, b) == IF a > b THEN a ELSE b
Min2(a, b) == IF a < b THEN a ELSE b

RECURSIVE SumRows(_, _, _, _)
SumRows(df, col, lo, hi) ==
    IF lo >= hi THEN (IF lo = hi THEN df[col][lo] ELSE 0)
    ELSE SumRows(df, col, lo, Mid(lo, hi)) + SumRows(df, col, Mid(lo, hi) + 1, hi)

RECURSIVE SumSqRows(_, _, _, _)
SumSqRows(df, col, lo, hi) ==
    IF lo >= hi THEN (IF lo = hi THEN df[col][lo] * df[col][lo] ELSE 0)
    ELSE SumSqRows(df, col, lo, Mid(lo, hi)) + SumSqRows(df, col, Mid(lo, hi) + 1, hi)

RECURSIVE MaxRows(_, _, _, _)
MaxRows(df, col, lo, hi) ==
    IF lo = hi THEN df[col][lo]
    ELSE Max2(MaxRows(df, col, lo, Mid(lo, hi)), MaxRows(df, col, Mid(lo, hi) + 1, hi))

RECURSIVE MinRows(_, _, _, _)
MinRows(df, col, lo, hi) ==
    IF lo = hi THEN df[col][lo]
    ELSE Min2(MinRows(df, col, lo, Mid(lo, hi)), MinRows(df, col, Mid(lo, hi) + 1, hi))

rolling_mean(df, col, w, r) ==
    IF r < w THEN NaN ELSE Frac(SumRows(df, col, r - w + 1, r), w)

rolling_max(df, col, w, r) ==
    IF r < w THEN NaN ELSE Num(MaxRows(df, col, r - w + 1, r))

rolling_min(df, col, w, r) ==
    IF r < w THEN NaN ELSE Num(MinRows(df, col, r - w + 1, r))

\* ma + 2 * sd over the trailing 20 closes, sd the population deviation
\* (ddof=0).  Kept as the window's sum s and sum of squares q:
\*   ma = s/w,  sd^2 = q/w - (s/w)^2 = (w*q - s*s) / w^2.
bb_upper(df, col, w, r) ==
    IF r < w THEN [nan |-> TRUE, s |-> 0, q |-> 0, w |-> w]
    ELSE [nan |-> FALSE, s |-> SumRows(df, col, r - w + 1, r),
          q |-> SumSqRows(df, col, r - w + 1, r), w |-> w]

\* c > ma + 2*sd  <=>  w*c - s > 0  and  (w*c - s)^2 > 4 * (w*q - s^2)
GtBand(c, bb) ==
    /\ ~bb.nan
    /\ bb.w * c - bb.s > 0
    /\ (bb.w * c - bb.s) * (bb.w * c - bb.s) > 4 * (bb.w * bb.q - bb.s * bb.s)

\* c <= ma + 2*sd: the negation of GtBand, except that NaN compares False
LeBand(c, bb) ==
    /\ ~bb.nan
    /\ \/ bb.w * c - bb.s <= 0
       \/ (bb.w * c - bb.s) * (bb.w * c - bb.s) <= 4 * (bb.w * bb.q - bb.s * bb.s)

(***************************************************************************)
(* add_indicators (main.py:52-66): the frame with the indicator columns.   *)
(***************************************************************************)
Columns == {"close", "volume", "ma20", "ma50", "ma200", "vol_ma20",
            "bb_up", "bb_mid", "hh", "ll_exit"}

add_indicators(df) ==
    [col \in Columns |->
        [r \in 1..len(df) |->
            CASE col = "close"    -> df["close"][r]
              [] col = "volume"   -> df["volume"][r]
              [] col = "ma20"     -> rolling_mean(df, "close", MA20_WINDOW, r)
              [] col = "ma50"     -> rolling_mean(df, "close", MA50_WINDOW, r)
              [] col = "ma200"    -> rolling_mean(df, "close", MA200_WINDOW, r)
              [] col = "vol_ma20" -> rolling_mean(df, "volume", MA20_WINDOW, r)
              [] col = "bb_up"    -> bb_upper(df, "close", MA20_WINDOW, r)
              [] col = "bb_mid"   -> rolling_mean(df, "close", MA20_WINDOW, r)
              [] col = "hh"       -> rolling_max(df, "close", BREAKOUT_LOOKBACK, r)
              [] col = "ll_exit"  -> rolling_min(df, "close", EXIT_NDAY_LOW, r)]]

\* df.iloc[k] for a negative k is the row len+k+1, a function from column
\* names to cells; a row that does not exist raises IndexError (ilocOk).
ilocOk(df, k) == len(df) + k + 1 >= 1
iloc(df, k) == [col \in Columns |-> df[col][len(df) + k + 1]]

(***************************************************************************)
(* buy_signal (main.py:71-90).                                             *)
(***************************************************************************)
cond_trend(t) == Gt(Num(t["close"]), t["ma200"])

cond_ma50_up(t, past) == Gt(t["ma50"], past["ma50"])

\* variant: above the band today, wherever the close was yesterday
cond_break_above(t, y) == GtBand(t["close"], t["bb_up"])

cond_break(t, y) ==
    /\ LeBand(y["close"], y["bb_up"])
    /\ GtBand(t["close"], t["bb_up"])

cond_hh(t) == Ge(Num(t["close"]), t["hh"])

\* variant: the multiplier left out
cond_vol_no_mult(t) == Ge(Num(t["volume"]), t["vol_ma20"])

cond_vol(t) == Ge(Num(t["volume"]), Mul(t["vol_ma20"], VOLUME_MULT))

buy_signal(df) ==
    IF len(df) < MIN_BARS THEN FALSE
    ELSE LET t == iloc(df, -1)
             y == iloc(df, -2)
         IN  IF isna(t["ma200"]) \/ isna(t["ma50"]) \/ isna(t["vol_ma20"])
             THEN FALSE
             ELSE LET past == iloc(df, -1 - MA50_SLOPE_LOOKBACK)
                  IN  /\ cond_trend(t)
                      /\ cond_ma50_up(t, past)
                      /\ cond_break(t, y)
                      /\ cond_hh(t)
                      /\ cond_vol(t)

(***************************************************************************)
(* sell_signal (main.py:95-110): "EXIT", "WARN" or "None"; df.iloc[-2] on  *)
(* a one-row frame raises, written "IndexError".                           *)
(***************************************************************************)
\* variant: the last close against today's trailing low, which includes it
exit_cond_today(df, t) == Lt(Num(t["close"]), t["ll_exit"])

\* t["종가"] < df["ll_exit"].iloc[-2]
exit_cond(df, t) == Lt(Num(t["close"]), df["ll_exit"][len(df) - 1])

\* variant: the second comparison turned round
warn_cond_above(t, y) ==
    /\ Ge(Num(y["close"]), y["ma20"])
    /\ Gt(Num(t["close"]), t["ma20"])

warn_cond(t, y) ==
    /\ Ge(Num(y["close"]), y["ma20"])
    /\ Lt(Num(t["close"]), t["ma20"])

\* variant: the two checks in the other order
sell_signal_warn_first(df) ==
    IF ~ilocOk(df, -2) THEN "IndexError"
    ELSE LET t == iloc(df, -1)
             y == iloc(df, -2)
         IN  IF isna(t["ll_exit"]) \/ isna(t["ma20"]) THEN "None"
             ELSE IF warn_cond(t, y) THEN "WARN"
             ELSE IF exit_cond(df, t) THEN "EXIT"
             ELSE "None"

sell_signal(df) ==
    IF ~ilocOk(df, -2) THEN "IndexError"
    ELSE LET t == iloc(df, -1)
             y == iloc(df, -2)
         IN  IF isna(t["ll_exit"]) \/ isna(t["ma20"]) THEN "None"
             ELSE IF exit_cond(df, t) THEN "EXIT"
             ELSE IF warn_cond(t, y) THEN "WARN"
             ELSE "None"

(***************************************************************************)
(* The price series the data provider may return for a ticker              *)
(* (stock.get_market_ohlcv_by_date, main.py:130-134).  A series of n bars  *)
(* is flat at close Closes[2] and volume Volumes[1] up to its last two     *)
(* bars: bar n-1 closes at cy, bar n closes at ct on volume vt.  n = 0 is  *)
(* the empty frame.  The lengths straddle every window of the strategy.    *)
(***************************************************************************)
Closes == <<5, 10, 20, 40>>
Volumes == <<10, 30>>
Lengths == {0, 1, 2, 10, 11, 19, 20, 21, 249, 250}

CloseSet == {Closes[k] : k \in DOMAIN Closes}
VolumeSet == {Volumes[k] : k \in DOMAIN Volumes}

SeriesParams ==
    {p \in [n : Lengths, cy : CloseSet, ct : CloseSet, vt : VolumeSet] :
        /\ p.n <= 1 => p.cy = Closes[2]
        /\ p.n = 0 => p.ct = Closes[2] /\ p.vt = Volumes[1]}

get_market_ohlcv_by_date(p) ==
    [col \in {"close", "volume"} |->
        [r \in 1..p.n |->
            IF col = "close"
            THEN (IF r = p.n THEN p.ct ELSE IF r = p.n - 1 THEN p.cy ELSE Closes[2])
            ELSE (IF r = p.n THEN p.vt ELSE Volumes[1])]]

\* Facts about a series that the statements about the exit rule speak of,
\* read off the raw closes: the last close is strictly below the lowest of
\* the 10 closes ending at the previous bar (which needs 11 bars), and the
\* last bar has 10 and 20 bars behind it (ll_exit and ma20 defined there).
BelowYesterdayLow(p) ==
    /\ p.n >= EXIT_NDAY_LOW + 1
    /\ \A r \in (p.n - EXIT_NDAY_LOW)..(p.n - 1) :
          get_market_ohlcv_by_date(p)["close"][p.n]
            < get_market_ohlcv_by_date(p)["close"][r]

DefinedAtLast(p) == p.n >= EXIT_NDAY_LOW /\ p.n >= MA20_WINDOW

\* What one pass reads off the fetched series: df.empty, buy_signal(df) and
\* sell_signal(df) on the frame with indicators.
Evaluate(p) ==
    LET df == add_indicators(get_market_ohlcv_by_date(p))
    IN  [empty   |-> p.n = 0,
         buy     |-> IF p.n = 0 THEN FALSE ELSE buy_signal(df),
         sell    |-> IF p.n = 0 THEN "None" ELSE sell_signal(df),
         below   |-> BelowYesterdayLow(p),
         defined |-> DefinedAtLast(p)]

\* The distinct results over the whole family of series.
Outcomes == {Evaluate(p) : p \in SeriesParams}

(***************************************************************************)
(* The universe (stock.get_market_cap_by_ticker, main.py:120-122): an      *)
(* ordered list of distinct ticker codes, possibly empty.                  *)
(***************************************************************************)
Tickers == {"005930", "000660", "035720"}

\* the lists stock.get_market_ticker_list may return (main.py:120-122):
\* empty, one ticker, two tickers in either order, all three
Universes ==
    {<<>>, <<"005930">>, <<"000660">>, <<"005930", "000660">>,
     <<"000660", "005930">>, <<"005930", "000660", "035720">>}

\* stock.get_market_ticker_name(code) (main.py:141)
get_market_ticker_name(code) ==
    CASE code = "005930" -> "Samsung"
      [] code = "000660" -> "SKhynix"
      [] OTHER -> "Kakao"

\* f"{name}({code})" (main.py:145, 152, 154)
Display(name, code) == <<name, "(", code, ")">>

(***************************************************************************)
(* The positions dict: a Python dict keeps insertion order, so it is a     *)
(* sequence of (code, record) items with distinct codes.                   *)
(***************************************************************************)
Has(d, code) == \E j \in 1..Len(d) : d[j].code = code
Get(d, code) == (CHOOSE j \in 1..Len(d) : d[j].code = code)
Keys(d) == {d[j].code : j \in 1..Len(d)}
EntryDate(d, code) == d[Get(d, code)].entry_date

\* positions[code] = {"entry_date": today}
DictSet(d, code, date) ==
    IF Has(d, code)
    THEN [d EXCEPT ![Get(d, code)] = [code |-> code, entry_date |-> date]]
    ELSE Append(d, [code |-> code, entry_date |-> date])

\* variant: the deletion empties the dict
DictDel_all(d, code) == <<>>

\* del positions[code]
DictDel(d, code) == SelectSeq(d, LAMBDA e : e.code # code)

(***************************************************************************)
(* The state file (main.py:34-47).  Its text is a sequence of chunks: the   *)
(* opening `{"positions": {`, one chunk per item, the closing `}}`.        *)
(* json.dump writes them in order, json.load accepts only a whole document.*)
(***************************************************************************)
Tok(k, code, date) == [k |-> k, code |-> code, entry_date |-> date]

\* json.dump(state, f)
RECURSIVE DumpItems(_)
DumpItems(d) ==
    IF d = <<>> THEN <<>>
    ELSE <<Tok("item", Head(d).code, Head(d).entry_date)>> \o DumpItems(Tail(d))

json_dump(state) ==
    <<Tok("open", "positions", 0)>>
      \o DumpItems(state.positions)
      \o <<Tok("close", "", 0)>>

\* whether json.load parses the text (otherwise it raises JSONDecodeError)
json_ok(text) ==
    /\ Len(text) >= 2
    /\ text[1].k = "open"
    /\ text[Len(text)].k = "close"
    /\ \A j \in 2..(Len(text) - 1) : text[j].k = "item"

\* json.load(f): the dict the text denotes; a repeated key keeps its first
\* place and its last value
RECURSIVE LoadItems(_, _, _)
LoadItems(text, j, d) ==
    IF j > Len(text) - 1 THEN d
    ELSE LoadItems(text, j + 1, DictSet(d, text[j].code, text[j].entry_date))

json_load(text) == [positions |-> LoadItems(text, 2, <<>>)]

NoFile == [exists |-> FALSE, text |-> <<>>]

\* load_state() (main.py:39-43); LoadRaises is json.load failing
LoadRaises(f) == f.exists /\ ~json_ok(f.text)

\* variant: the file is never read
load_state_fresh(f) == [positions |-> <<>>]

load_state(f) ==
    IF f.exists THEN json_load(f.text) ELSE [positions |-> <<>>]

(***************************************************************************)
(* The pieces of main() (main.py:115-175).                                 *)
(***************************************************************************)
\* variant: the membership guard left out
buy_fires_unguarded(buy, pos, code) == buy

\* `buy_signal(df) and code not in positions` (main.py:144)
buy_fires(buy, pos, code) == buy /\ ~Has(pos, code)

\* variant: EXIT recorded in the list but the record not deleted
after_sell_keeps(pos, code, sig) == pos

\* variant: WARN deletes the record as EXIT does
after_sell_warn_deletes(pos, code, sig) ==
    IF sig \in {"EXIT", "WARN"} THEN DictDel(pos, code) ELSE pos

\* the branches on sig (main.py:151-155): only EXIT changes the dict
after_sell(pos, code, sig) == IF sig = "EXIT" THEN DictDel(pos, code) ELSE pos

\* variant: the exception is not swallowed
except_handler_raises == "raise"

\* `except Exception: continue` (main.py:157-158): where a failed pass goes
except_handler == "continue"

\* variant: the snapshot is saved before the messages are sent
sends_done_unsent(n, msgs) == TRUE

\* `for m in messages: send_telegram(m)` (main.py:171-172) is over
sends_done(n, msgs) == n = Len(msgs)

\* variant: the loop is left after the first ticker
loop_done_early(k, univ) == k > 1 \/ k > Len(univ)

\* `for code in tickers` (main.py:128): the loop is over after the last ticker
loop_done(k, univ) == k > Len(univ)

\* variant: the name is looked up after the record was inserted, so a failing
\* lookup leaves the insertion behind
ticker_pass_late_name(code, o, nameOk, day, pos, bl, wl, el) ==
    LET name    == get_market_ticker_name(code)
        fires   == ~o.empty /\ buy_fires(o.buy, pos, code)
        pos1    == IF fires THEN DictSet(pos, code, day) ELSE pos
        checked == ~o.empty /\ nameOk /\ Has(pos1, code)
        sig     == IF checked THEN o.sell ELSE "skipped"
    IN  [positions |-> after_sell(pos1, code, sig),
         buy_list  |-> IF fires /\ nameOk THEN Append(bl, Display(name, code))
                       ELSE bl,
         warn_list |-> IF sig = "WARN" THEN Append(wl, Display(name, code)) ELSE wl,
         exit_list |-> IF sig = "EXIT" THEN Append(el, Display(name, code)) ELSE el,
         status    |-> IF o.empty THEN "empty"
                       ELSE IF ~nameOk \/ sig = "IndexError" THEN "raised"
                       ELSE "ok",
         fires     |-> fires,
         checked   |-> checked,
         sig       |-> sig]

\* the body of the try block after the fetch (main.py:136-155) for a series
\* with results o; nameOk says whether get_market_ticker_name returned
ticker_pass(code, o, nameOk, day, pos, bl, wl, el) ==
    LET name    == get_market_ticker_name(code)
        fires   == ~o.empty /\ nameOk /\ buy_fires(o.buy, pos, code)
        pos1    == IF fires THEN DictSet(pos, code, day) ELSE pos
        checked == ~o.empty /\ nameOk /\ Has(pos1, code)
        sig     == IF checked THEN o.sell ELSE "skipped"
    IN  [positions |-> after_sell(pos1, code, sig),
         buy_list  |-> IF fires THEN Append(bl, Display(name, code)) ELSE bl,
         warn_list |-> IF sig = "WARN" THEN Append(wl, Display(name, code)) ELSE wl,
         exit_list |-> IF sig = "EXIT" THEN Append(el, Display(name, code)) ELSE el,
         status    |-> IF o.empty THEN "empty"
                       ELSE IF ~nameOk \/ sig = "IndexError" THEN "raised"
                       ELSE "ok",
         fires     |-> fires,
         checked   |-> checked,
         sig       |-> sig]

\* the messages built after the loop (main.py:160-169)
Message(header, lines) == [header |-> header, lines |-> lines]

\* variant: the no-signal message is added when there is no buy candidate
build_messages_no_buy(bl, wl, el) ==
    LET m1 == IF bl # <<>> THEN <<Message("buy", bl)>> ELSE <<>>
        m2 == IF wl # <<>> THEN Append(m1, Message("warn", wl)) ELSE m1
        m3 == IF el # <<>> THEN Append(m2, Message("exit", el)) ELSE m2
    IN  IF bl = <<>> THEN Append(m3, Message("none", <<>>)) ELSE m3

\* variant: the `if not messages` branch left out
build_messages_silent(bl, wl, el) ==
    LET m1 == IF bl # <<>> THEN <<Message("buy", bl)>> ELSE <<>>
        m2 == IF wl # <<>> THEN Append(m1, Message("warn", wl)) ELSE m1
    IN  IF el # <<>> THEN Append(m2, Message("exit", el)) ELSE m2

build_messages(bl, wl, el) ==
    LET m1 == IF bl # <<>> THEN <<Message("buy", bl)>> ELSE <<>>
        m2 == IF wl # <<>> THEN Append(m1, Message("warn", wl)) ELSE m1
        m3 == IF el # <<>> THEN Append(m2, Message("exit", el)) ELSE m2
    IN  IF m3 = <<>> THEN <<Message("none", <<>>)>> ELSE m3

\* no series under test: the runs of main keep only the results of a series
NoParams == [n |-> 0, cy |-> Closes[2], ct |-> Closes[2], vt |-> Volumes[1]]

NoSeries == [empty |-> FALSE, buy |-> FALSE, sell |-> "None",
             below |-> FALSE, defined |-> FALSE]

NoPass == [code |-> "", status |-> "none", fetched |-> FALSE, nameOk |-> FALSE,
           o |-> NoSeries, held0 |-> FALSE, fires |-> FALSE,
           checked |-> FALSE, sig |-> "skipped", before |-> <<>>]

Init ==
    /\ file = NoFile
    /\ pc = "idle"
    /\ today = 0
    /\ positions = <<>>
    /\ tickers = <<>>
    /\ i = 0
    /\ buy_list = <<>> /\ warn_list = <<>> /\ exit_list = <<>>
    /\ messages = <<>>
    /\ sent = 0
    /\ pending = <<>>
    /\ run = 0
    /\ ended = ""
    /\ saves = 0
    /\ loaded = <<>>
    /\ prior = NoFile
    /\ last = NoPass
    /\ skipped = {}
    /\ born = [t \in Tickers |-> 0]
    /\ bornSaved = [t \in Tickers |-> 0]
    /\ clean = TRUE
    /\ series = NoParams

\* the process is gone and its memory with it; sent, the count of messages
\* already delivered, is a fact of the outside world and stays
Exit ==
    /\ pc' = "idle"
    /\ positions' = <<>> /\ tickers' = <<>> /\ i' = 0
    /\ buy_list' = <<>> /\ warn_list' = <<>> /\ exit_list' = <<>>
    /\ messages' = <<>> /\ pending' = <<>>
    /\ last' = NoPass /\ skipped' = {}

\* the process ends without completing: an uncaught exception or a kill
Abort(how) ==
    /\ Exit
    /\ ended' = how
    /\ born' = bornSaved
    /\ clean' = FALSE

\* main.py:116-118 with load_state returning
StartLoad ==
    /\ pc = "idle" /\ run < MaxRuns
    /\ ~LoadRaises(file)
    /\ run' = run + 1
    /\ \E d \in {today, today + 1} \ {0} : today' = d
    /\ positions' = load_state(file).positions
    /\ loaded' = load_state(file).positions
    /\ tickers' = <<>> /\ i' = 0
    /\ buy_list' = <<>> /\ warn_list' = <<>> /\ exit_list' = <<>>
    /\ messages' = <<>> /\ sent' = 0 /\ pending' = <<>>
    /\ ended' = "" /\ saves' = 0 /\ last' = NoPass /\ skipped' = {}
    /\ pc' = "universe"
    /\ UNCHANGED <<file, prior, born, bornSaved, clean>>
    /\ UNCHANGED series

\* main.py:117 with json.load raising: the run dies before anything else
StartLoadRaises ==
    /\ pc = "idle" /\ run < MaxRuns
    /\ LoadRaises(file)
    /\ run' = run + 1
    /\ \E d \in {today, today + 1} \ {0} : today' = d
    /\ loaded' = <<>> /\ sent' = 0 /\ saves' = 0
    /\ Abort("crashed")
    /\ UNCHANGED <<file, prior, bornSaved>>
    /\ UNCHANGED series

\* main.py:120-126
FetchUniverse ==
    /\ pc = "universe"
    /\ \E u \in Universes : tickers' = u
    /\ i' = 1
    /\ pc' = "loop"
    /\ UNCHANGED <<file, today, positions, buy_list, warn_list, exit_list,
                   messages, sent, pending, run, ended, saves, loaded, prior,
                   last, skipped, born, bornSaved, clean>>
    /\ UNCHANGED series

\* main.py:120 raising (the provider call is outside the try block)
FetchUniverseRaises ==
    /\ pc = "universe"
    /\ Abort("crashed")
    /\ UNCHANGED <<file, today, sent, run, saves, loaded, prior, bornSaved>>
    /\ UNCHANGED series

\* where the loop goes after a pass that raised
\* main.py:130-134 raising: nothing of the pass has happened
PassFetchRaises ==
    /\ pc = "loop" /\ ~loop_done(i, tickers)
    /\ IF except_handler = "continue"
       THEN /\ pc' = "loop" /\ i' = i + 1
            /\ last' = [NoPass EXCEPT !.code = tickers[i], !.status = "raised",
                                      !.held0 = Has(positions, tickers[i]),
                                      !.before = positions]
            /\ skipped' = skipped \cup {tickers[i]}
            /\ UNCHANGED <<positions, tickers, buy_list, warn_list, exit_list,
                           messages, pending, ended, born, clean>>
       ELSE Abort("crashed")
    /\ UNCHANGED <<file, today, sent, run, saves, loaded, prior, bornSaved>>
    /\ UNCHANGED series

\* main.py:130-155 for a fetched series with results o
Pass(o, nameOk) ==
    /\ pc = "loop" /\ ~loop_done(i, tickers)
    /\  LET code == tickers[i]
            r == ticker_pass(code, o, nameOk, today, positions,
                             buy_list, warn_list, exit_list)
            bought == ~o.empty /\ nameOk /\ o.buy
            b1 == IF bought /\ born[code] = 0
                  THEN [born EXCEPT ![code] = today] ELSE born
            b2 == IF r.sig = "EXIT" THEN [b1 EXCEPT ![code] = 0] ELSE b1
            go == r.status # "raised" \/ except_handler = "continue"
        IN  IF go
            THEN /\ positions' = r.positions
                 /\ buy_list' = r.buy_list
                 /\ warn_list' = r.warn_list
                 /\ exit_list' = r.exit_list
                 /\ last' = [code |-> code, status |-> r.status,
                             fetched |-> TRUE, nameOk |-> nameOk, o |-> o,
                             held0 |-> Has(positions, code), fires |-> r.fires,
                             checked |-> r.checked, sig |-> r.sig,
                             before |-> positions]
                 /\ skipped' = IF r.status = "raised"
                                THEN skipped \cup {code} ELSE skipped
                 /\ pc' = "loop" /\ i' = i + 1
                 /\ born' = b2
                 /\ UNCHANGED <<tickers, messages, pending, ended, clean>>
            ELSE Abort("crashed")
    /\ UNCHANGED <<file, today, sent, run, saves, loaded, prior, bornSaved>>
    /\ UNCHANGED series

PassSeries ==
    \E o \in Outcomes, nameOk \in BOOLEAN : Pass(o, nameOk)

\* main.py:160-169
BuildMessages ==
    /\ pc = "loop" /\ loop_done(i, tickers)
    /\ messages' = build_messages(buy_list, warn_list, exit_list)
    /\ sent' = 0
    /\ pc' = "send"
    /\ last' = NoPass
    /\ UNCHANGED <<file, today, positions, tickers, i, buy_list, warn_list,
                   exit_list, pending, run, ended, saves, loaded, prior,
                   skipped, born, bornSaved, clean>>
    /\ UNCHANGED series

\* main.py:171-172, send_telegram(m) returning
SendTelegram ==
    /\ pc = "send" /\ sent < Len(messages)
    /\ sent' = sent + 1
    /\ UNCHANGED <<file, pc, today, positions, tickers, i, buy_list, warn_list,
                   exit_list, messages, pending, run, ended, saves, loaded,
                   prior, last, skipped, born, bornSaved, clean>>
    /\ UNCHANGED series

\* requests.post raising (main.py:20): the call is outside any try block
SendTelegramRaises ==
    /\ pc = "send" /\ sent < Len(messages)
    /\ Abort("crashed")
    /\ UNCHANGED <<file, today, sent, run, saves, loaded, prior, bornSaved>>
    /\ UNCHANGED series

\* main.py:174-175 up to open(STATE_FILE, "w"), which truncates the file
SaveOpen ==
    /\ pc = "send" /\ sends_done(sent, messages)
    /\ saves' = saves + 1
    /\ prior' = file
    /\ file' = [exists |-> TRUE, text |-> <<>>]
    /\ pending' = json_dump([positions |-> positions])
    /\ pc' = "write"
    /\ UNCHANGED <<today, positions, tickers, i, buy_list, warn_list, exit_list,
                   messages, sent, run, ended, loaded, last, skipped, born,
                   bornSaved, clean>>
    /\ UNCHANGED series

\* json.dump writing the next token (main.py:47)
SaveWrite ==
    /\ pc = "write" /\ pending # <<>>
    /\ file' = [file EXCEPT !.text = Append(@, Head(pending))]
    /\ pending' = Tail(pending)
    /\ bornSaved' = IF Tail(pending) = <<>> THEN born ELSE bornSaved
    /\ UNCHANGED <<pc, today, positions, tickers, i, buy_list, warn_list,
                   exit_list, messages, sent, run, ended, saves, loaded, prior,
                   last, skipped, born, clean>>
    /\ UNCHANGED series

\* the with block closes the file and main returns
SaveClose ==
    /\ pc = "write" /\ pending = <<>>
    /\ Exit
    /\ ended' = "completed"
    /\ UNCHANGED <<file, today, sent, run, saves, loaded, prior, born,
                   bornSaved, clean>>
    /\ UNCHANGED series

\* the process is terminated from outside, at any point of a run
Kill ==
    /\ pc # "idle"
    /\ Abort("killed")
    /\ UNCHANGED <<file, today, sent, run, saves, loaded, prior, bornSaved>>
    /\ UNCHANGED series

Step ==
    \/ StartLoad
    \/ StartLoadRaises
    \/ FetchUniverse
    \/ FetchUniverseRaises
    \/ PassFetchRaises
    \/ PassSeries
    \/ BuildMessages
    \/ SendTelegram
    \/ SendTelegramRaises
    \/ SaveOpen
    \/ SaveWrite
    \/ SaveClose

Next == Step \/ Kill

Spec == Init /\ [][Next]_vars

\* The program's own steps are taken whenever one is possible: the process
\* is sequential and the scheduler starts each run; only Kill is not owed.
FairSpec == Spec /\ WF_vars(Step)

(***************************************************************************)
(* The signal functions on their own: one pass of the loop (main.py:128-   *)
(* 158) over every series of the family, for a ticker that is held and for *)
(* one that is not.  The state is that of a run about to make the pass;    *)
(* series keeps the parameters of the frame the provider returns, so that  *)
(* the statements can read the raw closes and volumes.                     *)
(***************************************************************************)
SignalTicker == "005930"

SignalInit ==
    /\ series \in SeriesParams
    /\ \E held \in BOOLEAN :
        LET pos == IF held THEN DictSet(<<>>, SignalTicker, 1) ELSE <<>>
            b   == [t \in Tickers |-> IF held /\ t = SignalTicker THEN 1 ELSE 0]
        IN  /\ file = IF held
                      THEN [exists |-> TRUE,
                            text |-> json_dump([positions |-> pos])]
                      ELSE NoFile
            /\ positions = pos /\ loaded = pos
            /\ born = b /\ bornSaved = b
    /\ pc = "loop" /\ today = 2 /\ run = 1
    /\ tickers = <<SignalTicker>> /\ i = 1
    /\ buy_list = <<>> /\ warn_list = <<>> /\ exit_list = <<>>
    /\ messages = <<>> /\ sent = 0 /\ pending = <<>>
    /\ ended = "" /\ saves = 0 /\ prior = NoFile
    /\ last = NoPass /\ skipped = {} /\ clean = TRUE

\* the pass over the series under test (the name lookup returns)
SignalPass == Pass(Evaluate(series), TRUE)

SignalNext == SignalPass

SignalSpec == SignalInit /\ [][SignalNext]_vars
(***************************************************************************)
(* Vocabulary of the statements.                                           *)
(***************************************************************************)
Range(q) == {q[j] : j \in 1..Len(q)}
Running == pc \in {"universe", "loop", "send", "write"}
\* the ticker's display line is in a result list
InList(q, code) == Display(get_market_ticker_name(code), code) \in Range(q)
\* tickers for which a buy has fired with no exit since
Live == {t \in Tickers : born[t] # 0}
NoDup(d) == \A j, k \in 1..Len(d) : d[j].code = d[k].code => j = k

(***************************************************************************)
(* C1.  Starting from no state file, as long as every run so far went      *)
(* through load, passes, notify and save, a ticker is in the snapshot --   *)
(* in memory after each pass, in what the next run loads, and in what the  *)
(* file holds between runs -- exactly if a buy fired for it and no exit    *)
(* has fired for it since.                                                 *)
(***************************************************************************)
C1_SnapshotIffBoughtNotExited ==
    clean =>
        /\ Running => Keys(positions) = Live
        /\ (pc = "idle" /\ ~LoadRaises(file))
              => Keys(load_state(file).positions) = Live

\* a later run has loaded a ticker bought before and its pass has exited it,
\* while another ticker it loaded is still held
C1_Witness ==
    /\ clean /\ run = 2 /\ pc = "loop"
    /\ last.held0 /\ last.sig = "EXIT"
    /\ positions # <<>>

(***************************************************************************)
(* C2 as stated: every run that has ended (other than by a kill) has       *)
(* called save exactly once.                                               *)
(***************************************************************************)
C2_Original ==
    (pc = "idle" /\ run > 0 /\ ended # "killed") => saves = 1

(***************************************************************************)
(* C2 amended.  No run calls save more than once; the call comes after the *)
(* ticker loop and after every message was sent; a run that returns from   *)
(* main has made it, and a run ended by an uncaught failure (load, the     *)
(* universe retrieval, a send) has not.                                    *)
(***************************************************************************)
C2_SaveOnceWhenCompleted ==
    /\ saves \in {0, 1}
    /\ ended = "completed" => saves = 1
    /\ ended = "crashed" => saves = 0
    /\ pc \in {"universe", "loop", "send"} => saves = 0
    /\ pc = "write" => saves = 1 /\ i > Len(tickers) /\ sent = Len(messages)

C2_Witness ==
    /\ pc = "idle" /\ ended = "completed" /\ saves = 1 /\ run = 2

(***************************************************************************)
(* C3.  While save_state runs, the file on disk is either the file as it   *)
(* was before the save or the complete new document.                       *)
(***************************************************************************)
C3_AtomicReplace ==
    pc = "write" =>
        \/ file = prior
        \/ file = [exists |-> TRUE,
                   text |-> json_dump([positions |-> positions])]

(***************************************************************************)
(* C4.  After a run that was killed, the state file still loads, and loads *)
(* to the snapshot that run had loaded at its start.                       *)
(***************************************************************************)
C4_KilledRunLeavesPreRunState ==
    (pc = "idle" /\ ended = "killed") =>
        /\ ~LoadRaises(file)
        /\ load_state(file).positions = loaded

(***************************************************************************)
(* C5.  A pass of the loop, whether it raised or not, is followed by the   *)
(* next ticker of the same universe (unless the process is killed); so the *)
(* run gets to the messages and the save only with every ticker passed,    *)
(* the skipped ones included.                                              *)
(***************************************************************************)
C5_FailedTickerIsSkipped ==
    /\ [][(pc = "loop" /\ i <= Len(tickers) /\ ended' # "killed")
            => (pc' = "loop" /\ i' = i + 1 /\ tickers' = tickers)]_vars
    /\ [](pc \in {"send", "write"}
            => (i = Len(tickers) + 1 /\ skipped \subseteq Range(tickers)))

\* the first ticker's pass raised, the second ticker's did not, and the run
\* has written its snapshot
C5_Witness ==
    /\ pc = "write" /\ pending = <<>> /\ saves = 1
    /\ Len(tickers) >= 2
    /\ tickers[1] \in skipped /\ tickers[2] \notin skipped

(***************************************************************************)
(* C6.  No ticker has two records; a record's entry_date is the day of the *)
(* buy that created it, in every run until an exit removes it; and a buy   *)
(* signal for a ticker already held neither fires an insertion, nor adds   *)
(* the ticker to the buy list, nor touches its entry_date.                 *)
(***************************************************************************)
C6_OneRecordFixedEntryDate ==
    /\ NoDup(positions)
    /\ Running => \A t \in Keys(positions) : EntryDate(positions, t) = born[t]
    /\ (pc = "loop" /\ last.status = "ok" /\ last.o.buy /\ last.held0) =>
          /\ ~last.fires
          /\ ~InList(buy_list, last.code)
          /\ Has(positions, last.code)
                => EntryDate(positions, last.code)
                     = EntryDate(last.before, last.code)

\* a buy signal on a later day for a ticker held since an earlier day
C6_Witness ==
    /\ pc = "loop" /\ last.status = "ok" /\ last.o.buy /\ last.held0
    /\ Has(positions, last.code)
    /\ EntryDate(positions, last.code) < today

(***************************************************************************)
(* C7 as stated: a held ticker whose last close is below yesterday's       *)
(* 10-bar low is put on the exits list and removed from the snapshot.      *)
(***************************************************************************)
C7_Original ==
    (pc = "loop" /\ last.fetched /\ last.nameOk /\ last.held0 /\ last.o.below)
        => (InList(exit_list, last.code) /\ ~Has(positions, last.code))

(***************************************************************************)
(* C7 amended: ... and whose last bar has ll_exit and ma20 defined (20     *)
(* bars or more), the name lookup having returned.                         *)
(***************************************************************************)
C7_ExitWhenIndicatorsDefined ==
    (pc = "loop" /\ last.fetched /\ last.nameOk /\ last.held0
       /\ last.o.below /\ last.o.defined)
        => /\ last.sig = "EXIT"
           /\ InList(exit_list, last.code)
           /\ ~Has(positions, last.code)

C7_Witness ==
    /\ pc = "loop" /\ last.fetched /\ last.nameOk /\ last.held0
    /\ last.o.below /\ last.o.defined
    /\ InList(exit_list, last.code)

(***************************************************************************)
(* C8.  A pass whose sell check returns WARN puts the ticker on the        *)
(* warnings list and leaves the snapshot as it was before the pass.        *)
(***************************************************************************)
C8_WarnLeavesSnapshot ==
    (pc = "loop" /\ last.sig = "WARN") =>
        /\ positions = last.before
        /\ Has(positions, last.code)
        /\ InList(warn_list, last.code)
        /\ ~InList(exit_list, last.code)

\* a WARN for one held ticker while another is held too
C8_Witness ==
    /\ pc = "loop" /\ last.sig = "WARN" /\ Len(positions) >= 2

Categories ==
    <<Message("buy", buy_list), Message("warn", warn_list),
      Message("exit", exit_list)>>

C10_MessagesPerCategory ==
    pc \in {"send", "write"} =>
        LET want == SelectSeq(Categories, LAMBDA m : m.lines # <<>>)
            none == Message("none", <<>>)
        IN  /\ Len(messages) \in 1..3
            /\ want # <<>> => messages = want
            /\ want = <<>> => messages = <<none>>
            /\ none \in Range(messages)
                  <=> (buy_list = <<>> /\ warn_list = <<>> /\ exit_list = <<>>)
            /\ none \in Range(messages) => Len(messages) = 1

\* all three categories in one run
C10_Witness ==
    /\ pc = "send" /\ Len(messages) = 3
    /\ buy_list # <<>> /\ warn_list # <<>> /\ exit_list # <<>>

(***************************************************************************)
(* C11.  A run over an empty universe builds, and by the time it saves has *)
(* sent, exactly the one no-signal message; its snapshot in memory is the  *)
(* one it loaded, and the document it has written loads to that snapshot.  *)
(***************************************************************************)
C11_EmptyUniverseRun ==
    (pc \in {"send", "write"} /\ tickers = <<>>) =>
        /\ messages = <<Message("none", <<>>)>>
        /\ positions = loaded
        /\ pc = "write" => sent = 1
        /\ (pc = "write" /\ pending = <<>>) =>
              /\ ~LoadRaises(file)
              /\ load_state(file).positions = loaded

\* an empty-universe run that had loaded a held position has written it back
C11_Witness ==
    /\ pc = "write" /\ pending = <<>> /\ tickers = <<>>
    /\ loaded # <<>> /\ sent = 1

(***************************************************************************)
(* The conditions of the strategy read off the raw closes and volumes of   *)
(* a series p, bar r counted from 1: sums over the trailing windows, with  *)
(* every comparison cleared of its denominators.  A condition on a window  *)
(* that the series does not fill is false.                                 *)
(***************************************************************************)
Raw(p) == get_market_ohlcv_by_date(p)
Close(p, r) == Raw(p)["close"][r]
Volume(p, r) == Raw(p)["volume"][r]
SumClose(p, w, r) == SumRows(Raw(p), "close", r - w + 1, r)
SumSqClose(p, w, r) == SumSqRows(Raw(p), "close", r - w + 1, r)
SumVolume(p, w, r) == SumRows(Raw(p), "volume", r - w + 1, r)

\* close[r] > mean + 2 * population standard deviation of the 20 closes
AboveBand(p, r) ==
    /\ r >= MA20_WINDOW
    /\ LET sum == SumClose(p, MA20_WINDOW, r)
           sq  == SumSqClose(p, MA20_WINDOW, r)
           d   == MA20_WINDOW * Close(p, r) - sum
       IN  d > 0 /\ d * d > 4 * (MA20_WINDOW * sq - sum * sum)

AtOrBelowBand(p, r) == r >= MA20_WINDOW /\ ~AboveBand(p, r)

EnoughBars(p) == p.n >= MIN_BARS

IndicatorsDefined(p) ==
    p.n >= MA200_WINDOW /\ p.n >= MA50_WINDOW /\ p.n >= MA20_WINDOW

AboveMa200(p) ==
    /\ p.n >= MA200_WINDOW
    /\ MA200_WINDOW * Close(p, p.n) > SumClose(p, MA200_WINDOW, p.n)

Ma50Rising(p) ==
    /\ p.n >= MA50_WINDOW + MA50_SLOPE_LOOKBACK
    /\ SumClose(p, MA50_WINDOW, p.n)
         > SumClose(p, MA50_WINDOW, p.n - MA50_SLOPE_LOOKBACK)

BandCross(p) ==
    /\ p.n >= 2
    /\ AtOrBelowBand(p, p.n - 1)
    /\ AboveBand(p, p.n)

AtHigh(p) ==
    /\ p.n >= BREAKOUT_LOOKBACK
    /\ \A r \in (p.n - BREAKOUT_LOOKBACK + 1)..p.n : Close(p, p.n) >= Close(p, r)

\* volume[t] >= 1.5 * mean of the 20 volumes
VolumeSurge(p) ==
    /\ p.n >= MA20_WINDOW
    /\ VOLUME_MULT.den * MA20_WINDOW * Volume(p, p.n)
         >= VOLUME_MULT.num * SumVolume(p, MA20_WINDOW, p.n)

\* a pass of the loop has evaluated the series under test
Evaluated == pc = "loop" /\ last.fetched /\ series.n >= 1

(***************************************************************************)
(* C12.  buy_signal returns true only for a series on which all seven      *)
(* conditions hold; it returns false for a series of fewer than 250 bars   *)
(* and for one whose last bar lacks ma200, ma50 or vol_ma20.               *)
(***************************************************************************)
C12_BuyOnlyIfAllSeven ==
    Evaluated =>
        /\ last.o.buy =>
              /\ EnoughBars(series)
              /\ IndicatorsDefined(series)
              /\ AboveMa200(series)
              /\ Ma50Rising(series)
              /\ BandCross(series)
              /\ AtHigh(series)
              /\ VolumeSurge(series)
        /\ ~EnoughBars(series) => ~last.o.buy
        /\ ~IndicatorsDefined(series) => ~last.o.buy

\* a series on which the buy signal is true
C12_Witness ==
    Evaluated /\ last.o.buy /\ series.n = MIN_BARS

(***************************************************************************)
(* C13.  buy_signal returns false for every series whose close is above    *)
(* bb_up on the previous bar and on the last bar.                          *)
(***************************************************************************)
C13_NoBuyWithoutCross ==
    (Evaluated /\ series.n >= 2
       /\ AboveBand(series, series.n - 1) /\ AboveBand(series, series.n))
        => ~last.o.buy

\* above the band two bars running with every other condition holding
C13_Witness ==
    /\ Evaluated /\ series.n >= 2
    /\ AboveBand(series, series.n - 1) /\ AboveBand(series, series.n)
    /\ EnoughBars(series) /\ IndicatorsDefined(series)
    /\ AboveMa200(series) /\ Ma50Rising(series)
    /\ AtHigh(series) /\ VolumeSurge(series)
    /\ ~last.o.buy

(***************************************************************************)
(* C14.  sell_signal returns EXIT exactly for the series whose last close  *)
(* is below the lowest of the 10 closes ending at the previous bar (with   *)
(* ll_exit and ma20 defined at the last bar); a series whose last close is *)
(* below the lowest of the 10 closes ending at the last bar, and not below *)
(* the former, gets no EXIT.                                               *)
(***************************************************************************)
BelowTodayLow(p) ==
    /\ p.n >= EXIT_NDAY_LOW
    /\ \A r \in (p.n - EXIT_NDAY_LOW + 1)..p.n : Close(p, p.n) < Close(p, r)

C14_ExitAgainstYesterdayLow ==
    (Evaluated /\ series.n >= 2) =>
        /\ last.o.sell = "EXIT"
              <=> (DefinedAtLast(series) /\ BelowYesterdayLow(series))
        /\ (BelowTodayLow(series) /\ ~BelowYesterdayLow(series))
              => last.o.sell # "EXIT"

\* EXIT on a close below yesterday's low that is not below today's
C14_Witness ==
    /\ Evaluated /\ last.o.sell = "EXIT"
    /\ BelowYesterdayLow(series) /\ ~BelowTodayLow(series)

(***************************************************************************)
(* C15.  A run that saves the snapshot it loaded, unmodified, leaves a     *)
(* document with the ticker keys and the entry dates of the document that  *)
(* was there before; and a run that starts with no state file loads the    *)
(* empty mapping (load_state does not raise).                              *)
(***************************************************************************)
Equivalent(a, b) ==
    /\ Keys(a) = Keys(b)
    /\ \A t \in Keys(a) : EntryDate(a, t) = EntryDate(b, t)

C15_LoadSaveRoundTrip ==
    /\ (pc = "write" /\ pending = <<>> /\ positions = loaded) =>
          /\ json_ok(file.text)
          /\ Equivalent(json_load(file.text).positions, loaded)
          /\ prior.exists =>
                Equivalent(json_load(file.text).positions,
                           json_load(prior.text).positions)
          /\ ~prior.exists => json_load(file.text).positions = <<>>
    /\ ~LoadRaises(NoFile) /\ load_state(NoFile).positions = <<>>
    /\ (pc = "universe" /\ ~file.exists) => (loaded = <<>> /\ positions = <<>>)

\* two records loaded, a universe that is not empty, nothing changed, saved
C15_Witness ==
    /\ pc = "write" /\ pending = <<>> /\ positions = loaded
    /\ Len(loaded) = 2 /\ tickers # <<>> /\ prior.exists

(***************************************************************************)
(* C16.  For every non-empty series, a single bar included, whose last bar *)
(* lacks ll_exit or ma20, sell_signal returns "no signal".                 *)
(***************************************************************************)
C16_NoSignalWhenUndefined ==
    (Evaluated /\ last.checked /\ ~DefinedAtLast(series))
        => (last.sig = "None" /\ last.status = "ok")

(***************************************************************************)
(* C17.  On every series on which the exit condition and the warn          *)
(* condition both hold, sell_signal returns EXIT; and no pass puts its     *)
(* ticker on the warnings list and on the exits list.                      *)
(***************************************************************************)
\* close[y] >= ma20[y] and close[t] < ma20[t]
WarnCondition(p) ==
    /\ p.n >= MA20_WINDOW + 1
    /\ MA20_WINDOW * Close(p, p.n - 1) >= SumClose(p, MA20_WINDOW, p.n - 1)
    /\ MA20_WINDOW * Close(p, p.n) < SumClose(p, MA20_WINDOW, p.n)

C17_ExitBeforeWarn ==
    Evaluated =>
        /\ (BelowYesterdayLow(series) /\ WarnCondition(series))
              => last.o.sell = "EXIT"
        /\ (last.checked /\ BelowYesterdayLow(series) /\ WarnCondition(series))
              => (InList(exit_list, last.code) /\ ~InList(warn_list, last.code))
        /\ ~(InList(warn_list, last.code) /\ InList(exit_list, last.code))

\* a held ticker on whose series both conditions hold
C17_Witness ==
    /\ Evaluated /\ last.checked
    /\ BelowYesterdayLow(series) /\ WarnCondition(series)
    /\ last.sig = "EXIT"

(***************************************************************************)
(* C18.  In a run, the record (or the absence) of every ticker that is not *)
(* in the universe, or whose pass is still to come, is the one loaded; a   *)
(* pass over an empty series or a pass that raised leaves the snapshot as  *)
(* it was; and the document the run writes keeps, for every ticker outside *)
(* the universe, the record that was loaded.                               *)
(***************************************************************************)
\* the entry date of t in d, 0 if t has no record
Record(d, t) == IF Has(d, t) THEN EntryDate(d, t) ELSE 0

C18_OnlyUniverseTickersChange ==
    /\ pc \in {"loop", "send", "write"} =>
          \A t \in Tickers \ Range(tickers) :
              Record(positions, t) = Record(loaded, t)
    /\ pc = "loop" =>
          \A k \in i..Len(tickers) :
              Record(positions, tickers[k]) = Record(loaded, tickers[k])
    /\ (pc = "loop" /\ last.status \in {"empty", "raised"}) =>
          positions = last.before
    /\ (pc = "write" /\ pending = <<>>) =>
          /\ ~LoadRaises(file)
          /\ \A t \in Tickers \ Range(tickers) :
                Record(load_state(file).positions, t) = Record(loaded, t)

\* a later run whose universe leaves out a ticker held since an earlier day
\* has changed the snapshot for another ticker and written it out
C18_Witness ==
    /\ pc = "write" /\ pending = <<>> /\ tickers # <<>>
    /\ positions # loaded
    /\ \E t \in Keys(loaded) \ Range(tickers) :
          /\ Record(loaded, t) < today
          /\ Record(load_state(file).positions, t) = Record(loaded, t)

(***************************************************************************)
(* C19.  A pass that raised leaves the snapshot and the three lists as     *)
(* they were before it; and a pass that inserted a record has completed    *)
(* without raising, its sell check done and its ticker on the buy list.    *)
(***************************************************************************)
C19_FailedPassHasNoEffect ==
    /\ [][(pc = "loop" /\ pc' = "loop" /\ last'.status = "raised")
            => /\ i' = i + 1
               /\ last'.code = tickers[i]
               /\ positions' = positions
               /\ buy_list' = buy_list
               /\ warn_list' = warn_list
               /\ exit_list' = exit_list]_vars
    /\ []((pc = "loop" /\ last.status = "raised")
            => (positions = last.before /\ ~last.fires))
    /\ []((pc = "loop" /\ last.fires)
            => /\ last.status = "ok" /\ last.checked
               /\ InList(buy_list, last.code)
               /\ Has(positions, last.code))

\* the name lookup failed for a ticker not held whose series gave a buy
\* signal, after an earlier ticker of the run was bought
C19_Witness ==
    /\ pc = "loop" /\ last.status = "raised"
    /\ last.fetched /\ last.o.buy /\ ~last.held0
    /\ buy_list # <<>> /\ positions # <<>>

(***************************************************************************)
(* C20.  save_state is entered only with every message sent; while the     *)
(* messages are being sent nothing has been saved and the state file still *)
(* holds the snapshot the run loaded; and a send that raises ends the run  *)
(* there: no save, the file as it was, the messages already delivered      *)
(* staying delivered.                                                      *)
(***************************************************************************)
C20_SendFailureSkipsSave ==
    /\ [](pc = "write" => (sent = Len(messages) /\ sent >= 1))
    /\ [](pc = "send" =>
            /\ saves = 0
            /\ ~LoadRaises(file)
            /\ load_state(file).positions = loaded)
    /\ [][(pc = "send" /\ ended' = "crashed") =>
            /\ pc' = "idle"
            /\ saves' = 0
            /\ file' = file
            /\ sent' = sent
            /\ load_state(file').positions = loaded']_vars

\* a later run died on its second or third message: one was delivered,
\* nothing was saved, the file is the one the run had loaded records from
C20_Witness ==
    /\ pc = "idle" /\ ended = "crashed" /\ run = 2
    /\ sent >= 1 /\ saves = 0
    /\ loaded # <<>> /\ load_state(file).positions = loaded

====
